---- MODULE Spec2Model ----
(***************************************************************************)
(* gauthctl (src/src/gauthctl.c): a setuid helper that, after a PAM        *)
(* authentication, installs a caller-supplied file as the per-user state   *)
(* file (enable) or removes that state file (disable).                     *)
(*                                                                         *)
(* The model holds the filesystem (inodes, the state directory, the        *)
(* caller's directory of candidate files), one process per invocation of   *)
(* main(), one step per system call, and an adversary who re-links         *)
(* candidate paths.  What a reader of a state path finds is View(path).    *)
(***************************************************************************)
EXTENDS Integers, Sequences, FiniteSets, TLC

(* ------------------------------ bounds -------------------------------- *)

\* largest candidate file, in bytes
MaxLen == 2
\* number of times the adversary re-links a candidate path
MaxAdv == 1

\* the concurrent invocations of gauthctl
Procs == {"p1", "p2"}

(* ------------------------- program constants --------------------------- *)

\* char buf[4096]
BufSize == 4096
\* the mode argument of open(tmp_buf, O_WRONLY|O_CREAT|O_EXCL, 0600)
CreatMode == 384
\* the mask of umask(077)
UmaskArg == 63
\* the mask of (st.st_mode & 077)
GroupOtherMask == 63
\* malloc(strlen(state_path) + 4)
TmpBufExtra == 4

GAUTH_STATEDIR == "/var/lib/gauth"

CMD_NULL == "CMD_NULL"
CMD_ENABLE == "CMD_ENABLE"
CMD_DISABLE == "CMD_DISABLE"

PAM_SUCCESS == "PAM_SUCCESS"
PamResults == {"PAM_SUCCESS", "PAM_AUTH_ERR"}

ENOENT == "ENOENT"
EACCES == "EACCES"
EEXIST == "EEXIST"
ELOOP == "ELOOP"
EIO == "EIO"

\* the real uid of the caller (getuid()), the effective uid of the setuid
\* binary (GAUTH_USERNAME), and some third user
CallerUid == "user"
ServiceUid == "root"
OtherUid == "other"

\* the caller's name in the passwd database
Users == {"alice"}
\* other names in the passwd database, whose owners have state files too
Neighbours == {"alice.new", "bob"}
Identities == Users \cup Neighbours

(* ---------------------------- pure helpers ----------------------------- *)

RECURSIVE BitAnd(_, _)
BitAnd(a, b) ==
    IF a = 0 \/ b = 0 THEN 0
    ELSE (a % 2) * (b % 2) + 2 * BitAnd(a \div 2, b \div 2)

\* the permission bits the kernel gives a created file: mode & ~umask
ApplyUmask(mode, mask) == BitAnd(mode, 511 - mask)

Min(a, b) == IF a < b THEN a ELSE b

\* sprintf(buf, "%s/%s", GAUTH_STATEDIR, username)
get_state_path(username) == GAUTH_STATEDIR \o "/" \o username

\* sizeof GAUTH_STATEDIR: the bytes of the string literal, with its NUL
StateDirSize == Len(GAUTH_STATEDIR) + 1
\* buf_size = (sizeof GAUTH_STATEDIR) + strlen(username) + 1, and the bytes
\* sprintf(buf, "%s/%s", ...) writes into buf (with the NUL)
StatePathBufSize(username) == StateDirSize + Len(username) + 1
StatePathBufNeeded(username) == Len(get_state_path(username)) + 1

\* the staging path without its suffix: the copy is made in place
TmpPathInPlace(state_path) == state_path

\* sprintf(tmp_buf, "%s.new", state_path)
TmpPath(state_path) == state_path \o ".new"

\* bytes allocated for, and bytes written into, tmp_buf (with the NUL)
TmpBufSize(state_path) == Len(state_path) + TmpBufExtra
TmpBufNeeded(state_path) == Len(TmpPath(state_path)) + 1

(* ------------------------------- state --------------------------------- *)

VARIABLES
    inodes,     \* the files: a sequence of [uid, mode, data, creator]
    dir,        \* the state directory: path -> inode number, 0 when absent
    cand,       \* the caller's directory: name -> [kind, ino]
    fdt,        \* per process, the descriptor table: fd -> [ino, off]
    umask,      \* per process, the file mode creation mask
    errno,      \* per process, errno
    heap_ok,    \* per process, FALSE once a write has overrun a malloc'd buffer
    pc,         \* per process, the next system call
    main,       \* per process, the locals of main()
    enable,     \* per process, the locals of enable(), and the number of
                \* its close() calls that were given a closed descriptor
    exit,       \* per process, the exit status (Running until it exits)
    obs,        \* per process, a record of what the invocation has done:
                \* gate evaluations and their result, the results of the PAM
                \* calls the gate made, the state file found
                \* when the gate was passed, opens of the candidate path,
                \* reads of the candidate, the staging file created
    adv         \* how many times the adversary has acted

vars == <<inodes, dir, cand, fdt, umask, errno, heap_ok, pc, main, enable,
          exit, obs, adv>>

CandNames == {"a", "b", "foreign", "loose", "link", "missing"}
StatePaths == {get_state_path(u) : u \in Users}
NeighbourPaths == {get_state_path(u) : u \in Neighbours}
DirPaths == StatePaths \cup {TmpPath(s) : s \in StatePaths} \cup NeighbourPaths
Fds == {3, 4}

\* the inode numbers of the files that exist before any invocation
Ino == [a |-> 1, b |-> 2, foreign |-> 3, loose |-> 4, old |-> 5]

Bytes(n, base) == [i \in 1..n |-> base + i]
OldData == <<90>>

File(uid, mode, data, creator) ==
    [uid |-> uid, mode |-> mode, data |-> data, creator |-> creator]

InitInodes(lenA) ==
    << File(CallerUid, 384, Bytes(lenA, 10), "init"),
       File(CallerUid, 384, Bytes(MaxLen, 20), "init"),
       File(OtherUid, 384, <<30>>, "init"),
       File(CallerUid, 416, <<40>>, "init"),
       File(ServiceUid, 384, OldData, "init") >>

InitCand ==
    [n \in CandNames |->
        CASE n = "a" -> [kind |-> "file", ino |-> Ino.a]
          [] n = "b" -> [kind |-> "file", ino |-> Ino.b]
          [] n = "foreign" -> [kind |-> "file", ino |-> Ino.foreign]
          [] n = "loose" -> [kind |-> "file", ino |-> Ino.loose]
          [] n = "link" -> [kind |-> "symlink", ino |-> Ino.a]
          [] OTHER -> [kind |-> "none", ino |-> 0]]

\* exit statuses: still running, and killed by abort() (128 + SIGABRT)
Running == 0 - 1
Aborted == 128 + 6

\* what a reader finds at a state path
View(path) ==
    IF dir[path] = 0 THEN [exists |-> FALSE, data |-> <<>>]
    ELSE [exists |-> TRUE, data |-> inodes[dir[path]].data]

NoView == [exists |-> FALSE, data |-> <<0>>]

NoFile == [ino |-> 0, off |-> 0]
NoStat == [st_ino |-> 0, st_uid |-> "none", st_mode |-> 0]

\* a file with no name and no open descriptor is freed by the kernel; the
\* candidates keep their names in the caller's directory
Freed == File("none", 0, <<>>, "none")
Referenced(i, d, t) ==
    \/ i \in {Ino.a, Ino.b, Ino.foreign, Ino.loose}
    \/ \E n \in DOMAIN d : d[n] = i
    \/ \E p \in Procs, f \in Fds : t[p][f].ino = i
Gc(files, d, t) ==
    [i \in DOMAIN files |-> IF Referenced(i, d, t) THEN files[i] ELSE Freed]

InitMain ==
    [cmd |-> CMD_NULL, path |-> "none", username |-> "none",
     state_path |-> "none", ret |-> FALSE]
InitEnable ==
    [tmp_buf |-> "none", st |-> NoStat, in_fd |-> -1, out_fd |-> -1,
     buf |-> <<>>, rd |-> 0, ret |-> FALSE, ebadf |-> 0]
InitObs ==
    [ngate |-> 0, auth |-> "none", pam |-> <<>>, pre |-> NoView, nopen |-> 0,
     nread |-> 0, staged |-> 0]

Init ==
    /\ \E s \in {0, Ino.old} :
          dir = [d \in DirPaths |-> IF d \in StatePaths THEN s ELSE 0]
    /\ cand = InitCand
    /\ fdt = [p \in Procs |-> [f \in Fds |-> NoFile]]
    /\ \E lenA \in 0..MaxLen : inodes = Gc(InitInodes(lenA), dir, fdt)
    /\ umask = [p \in Procs |-> 0]
    /\ errno = [p \in Procs |-> "none"]
    /\ heap_ok = [p \in Procs |-> TRUE]
    /\ pc = [p \in Procs |-> "start"]
    /\ main = [p \in Procs |-> InitMain]
    /\ enable = [p \in Procs |-> InitEnable]
    /\ exit = [p \in Procs |-> Running]
    /\ obs = [p \in Procs |-> InitObs]
    /\ adv = 0

\* the state files of the neighbours, each installed by an earlier enable
NeighbourIno(u) == IF u = "bob" THEN Len(InitInodes(0)) + 2
                   ELSE Len(InitInodes(0)) + 1
NeighbourInodes ==
    << File(ServiceUid, 384, <<91>>, "init"),
       File(ServiceUid, 384, <<92>>, "init") >>

\* the state directory with the neighbours' state files in it
InitIso ==
    /\ \E s \in {0, Ino.old} :
          dir = [d \in DirPaths |->
                    IF d \in StatePaths THEN s
                    ELSE IF \E u \in Neighbours : d = get_state_path(u)
                         THEN NeighbourIno(CHOOSE u \in Neighbours :
                                              d = get_state_path(u))
                         ELSE 0]
    /\ cand = InitCand
    /\ fdt = [p \in Procs |-> [f \in Fds |-> NoFile]]
    /\ \E lenA \in 0..MaxLen :
          inodes = Gc(InitInodes(lenA) \o NeighbourInodes, dir, fdt)
    /\ umask = [p \in Procs |-> 0]
    /\ errno = [p \in Procs |-> "none"]
    /\ heap_ok = [p \in Procs |-> TRUE]
    /\ pc = [p \in Procs |-> "start"]
    /\ main = [p \in Procs |-> InitMain]
    /\ enable = [p \in Procs |-> InitEnable]
    /\ exit = [p \in Procs |-> Running]
    /\ obs = [p \in Procs |-> InitObs]
    /\ adv = 0

(* ----------------------- system-call semantics ------------------------ *)

\* the lowest descriptor not in use
LowestFree(t) == CHOOSE f \in Fds : t[f] = NoFile /\ \A g \in Fds : g < f => t[g] # NoFile

\* a close that releases nothing
CloseKeep(t, fd) == t

\* close(fd)
Close(t, fd) == [t EXCEPT ![fd] = NoFile]

\* close() of each descriptor of the sequence fds, in order
RECURSIVE CloseAll(_, _)
CloseAll(t, fds) ==
    IF fds = <<>> THEN t ELSE CloseAll(Close(t, Head(fds)), Tail(fds))

\* how many of these close() calls are given a descriptor that is not open
\* (EBADF)
RECURSIVE BadCloses(_, _)
BadCloses(t, fds) ==
    IF fds = <<>> THEN 0
    ELSE (IF t[Head(fds)] = NoFile THEN 1 ELSE 0)
         + BadCloses([t EXCEPT ![Head(fds)] = NoFile], Tail(fds))

\* data with bytes written at offset off
WriteAt(data, off, bytes) ==
    [i \in 1..(IF Len(data) > off + Len(bytes) THEN Len(data) ELSE off + Len(bytes)) |->
        IF i > off /\ i <= off + Len(bytes) THEN bytes[i - off] ELSE data[i]]

\* unlink(name) in the state directory by p: [ret, errno, dir]
Unlink(p, name, fault) ==
    IF fault THEN [ret |-> -1, errno |-> EACCES, dir |-> dir]
    ELSE IF dir[name] = 0 THEN [ret |-> -1, errno |-> ENOENT, dir |-> dir]
    ELSE [ret |-> 0, errno |-> errno[p], dir |-> [dir EXCEPT ![name] = 0]]

(* ------------------------------- main() -------------------------------- *)

\* the process ends: its descriptors are closed and its memory is gone
Exit(p, status) ==
    /\ pc' = [pc EXCEPT ![p] = "exit"]
    /\ exit' = [exit EXCEPT ![p] = status]
    /\ fdt' = [fdt EXCEPT ![p] = [f \in Fds |-> NoFile]]
    /\ errno' = [errno EXCEPT ![p] = "none"]
    /\ heap_ok' = [heap_ok EXCEPT ![p] = TRUE]
    /\ enable' = [enable EXCEPT ![p] = InitEnable]
    /\ inodes' = Gc(inodes, dir, fdt')

\* the process goes on
Live == UNCHANGED <<exit, fdt, errno, heap_ok, enable, inodes>>

\* authenticate() with the result of pam_end() not looked at
authenticateNoEnd(r_start, r_auth, r_acct, r_end) ==
    r_start = PAM_SUCCESS /\ r_auth = PAM_SUCCESS /\ r_acct = PAM_SUCCESS

\* authenticate(): the four PAM calls in order, each failure returning false
authenticate(r_start, r_auth, r_acct, r_end) ==
    IF r_start # PAM_SUCCESS THEN FALSE
    ELSE IF r_auth # PAM_SUCCESS THEN FALSE
    ELSE IF r_acct # PAM_SUCCESS THEN FALSE
    ELSE IF r_end # PAM_SUCCESS THEN FALSE
    ELSE TRUE

\* the PAM calls authenticate() makes, with their results: pam_start,
\* pam_authenticate, pam_acct_mgmt, pam_end, up to the first that fails
PamCalls(r_start, r_auth, r_acct, r_end) ==
    IF r_start # PAM_SUCCESS THEN <<r_start>>
    ELSE IF r_auth # PAM_SUCCESS THEN <<r_start, r_auth>>
    ELSE IF r_acct # PAM_SUCCESS THEN <<r_start, r_auth, r_acct>>
    ELSE <<r_start, r_auth, r_acct, r_end>>

\* the gate with its test dropped
GateOpenAlways(authenticated) == TRUE

\* if (!authenticate(username)) return 1;
GateOpen(authenticated) == authenticated

\* the gate run again in place of the switch
DispatchRetry(c) == "auth"

\* switch (cmd)
Dispatch(c) == IF c = CMD_ENABLE THEN "e_malloc" ELSE "d_unlink"

\* the option loop, umask(077), get_user() and get_state_path()
Main_start(p) ==
    /\ pc[p] = "start"
    /\ UNCHANGED <<dir, cand, obs, adv>>
    /\ \/ \* --help, --version
          /\ Exit(p, 0)
          /\ UNCHANGED <<main, umask>>
       \/ \* an unknown option, no command, or a stray argument: usage()
          /\ Exit(p, 1)
          /\ UNCHANGED <<main, umask>>
       \/ \* get_user() or get_state_path() returns NULL
          /\ Exit(p, 1)
          /\ umask' = [umask EXCEPT ![p] = UmaskArg]
          /\ \E c \in {CMD_ENABLE, CMD_DISABLE} :
                main' = [main EXCEPT ![p].cmd = c]
       \/ \E c \in {CMD_ENABLE, CMD_DISABLE}, u \in Users :
          \E f \in (IF c = CMD_ENABLE THEN CandNames ELSE {"none"}) :
             /\ main' = [main EXCEPT ![p].cmd = c, ![p].path = f,
                                     ![p].username = u,
                                     ![p].state_path = get_state_path(u)]
             /\ umask' = [umask EXCEPT ![p] = UmaskArg]
             /\ pc' = [pc EXCEPT ![p] = "auth"]
             /\ Live

Main_authenticate(p) ==
    /\ pc[p] = "auth"
    /\ UNCHANGED <<dir, cand, umask, main, adv>>
    /\ \E r1 \in PamResults, r2 \in PamResults, r3 \in PamResults,
          r4 \in PamResults :
          LET ok == authenticate(r1, r2, r3, r4) IN
          /\ obs' = [obs EXCEPT ![p].ngate = @ + 1,
                                ![p].auth = IF ok THEN "ok" ELSE "fail",
                                ![p].pam = PamCalls(r1, r2, r3, r4),
                                ![p].pre = View(main[p].state_path)]
          /\ IF GateOpen(ok)
             THEN pc' = [pc EXCEPT ![p] = Dispatch(main[p].cmd)] /\ Live
             ELSE Exit(p, 1)

\* free(): when the heap has been overrun the allocator aborts the process,
\* or does not notice and returns
Free(p, status) ==
    \/ Exit(p, status)
    \/ ~heap_ok[p] /\ Exit(p, Aborted)

\* free(state_path); return ret ? 0 : 1;
Main_free(p) ==
    /\ pc[p] = "m_free"
    /\ UNCHANGED <<dir, cand, umask, main, obs, adv>>
    /\ Free(p, IF main[p].ret THEN 0 ELSE 1)

(* ------------------------------ disable() ------------------------------ *)

\* the test without its ENOENT case
DisableOkStrict(r, e) == r = 0

\* if (ret == 0 || errno == ENOENT) return true;
DisableOk(r, e) == r = 0 \/ e = ENOENT

Disable_unlink(p) ==
    /\ pc[p] = "d_unlink"
    /\ UNCHANGED <<cand, fdt, umask, heap_ok, enable, exit, obs, adv>>
    /\ \E fault \in BOOLEAN :
          LET u == Unlink(p, main[p].state_path, fault) IN
          /\ dir' = u.dir
          /\ errno' = [errno EXCEPT ![p] = u.errno]
          /\ main' = [main EXCEPT ![p].ret = DisableOk(u.ret, u.errno)]
          /\ pc' = [pc EXCEPT ![p] = "m_free"]
          /\ inodes' = Gc(inodes, dir', fdt)

(* ------------------------------ enable() ------------------------------- *)

\* the open without O_NOFOLLOW: a symlink is followed
OpenFollow(entry) ==
    IF entry.kind = "none" THEN [ino |-> 0, errno |-> ENOENT]
    ELSE [ino |-> entry.ino, errno |-> "none"]

\* open(path, O_RDONLY|O_NOFOLLOW) of a directory entry: [ino, errno]
OpenCandidate(entry) ==
    CASE entry.kind = "none" -> [ino |-> 0, errno |-> ENOENT]
      [] entry.kind = "symlink" -> [ino |-> 0, errno |-> ELOOP]
      [] OTHER -> [ino |-> entry.ino, errno |-> "none"]

\* stat(path, &st) in place of fstat: the file the path names now
StatByPath(p) ==
    IF cand[main[p].path].ino = 0 THEN fdt[p][enable[p].in_fd].ino
    ELSE cand[main[p].path].ino

\* the file fstat(in_fd, &st) reports on: the one behind the descriptor
StatTarget(p) == fdt[p][enable[p].in_fd].ino

\* st.st_uid != getuid()
OwnerOk(st) == st.st_uid = CallerUid

\* the mode test with the mask 007: the group bits are not looked at
ModeOkOtherOnly(st) == BitAnd(st.st_mode, 7) = 0

\* (st.st_mode & 077) != 0
ModeOk(st) == BitAnd(st.st_mode, GroupOtherMask) = 0

\* the result of the pre-unlink not looked at
PreUnlinkNeverFatal(r, e) == FALSE

\* if (ret != 0 && errno != ENOENT): the pre-unlink failed
PreUnlinkFatal(r, e) == r # 0 /\ e # ENOENT

\* the process has dropped its privilege before it creates the file
CreatUidCaller == CallerUid

\* the owner of a file the process creates: its effective uid
CreatUid == ServiceUid

\* the path rename() moves onto state_path
RenameSource(p) == enable[p].tmp_buf

\* an error return of enable() after tmp_buf was allocated: the descriptors
\* of fds closed in that order, then free(tmp_buf), return false
EnableFail(p, e, fds) ==
    /\ errno' = [errno EXCEPT ![p] = e]
    /\ fdt' = [fdt EXCEPT ![p] = CloseAll(@, fds)]
    /\ enable' = [enable EXCEPT ![p].ret = FALSE,
                                ![p].ebadf = @ + BadCloses(fdt[p], fds)]
    /\ pc' = [pc EXCEPT ![p] = "e_free"]

\* tmp_buf = malloc(strlen(state_path) + 4); sprintf(tmp_buf, "%s.new", ...)
Enable_malloc(p) ==
    /\ pc[p] = "e_malloc"
    /\ UNCHANGED <<inodes, dir, cand, fdt, umask, errno, exit, obs, adv>>
    /\ \/ \* malloc returns NULL: return false
          /\ main' = [main EXCEPT ![p].ret = FALSE]
          /\ pc' = [pc EXCEPT ![p] = "m_free"]
          /\ UNCHANGED <<enable, heap_ok>>
       \/ /\ enable' = [enable EXCEPT ![p].tmp_buf = TmpPath(main[p].state_path)]
          /\ heap_ok' = [heap_ok EXCEPT ![p] =
                TmpBufNeeded(main[p].state_path) <= TmpBufSize(main[p].state_path)]
          /\ pc' = [pc EXCEPT ![p] = "e_open"]
          /\ UNCHANGED main

\* in_fd = open(path, O_RDONLY|O_NOFOLLOW)
Enable_open(p) ==
    /\ pc[p] = "e_open"
    /\ UNCHANGED <<inodes, dir, cand, umask, heap_ok, main, exit, adv>>
    /\ obs' = [obs EXCEPT ![p].nopen = @ + 1]
    /\ LET o == OpenCandidate(cand[main[p].path]) IN
       \/ /\ o.ino = 0
          /\ EnableFail(p, o.errno, <<>>)
       \/ \* the open fails for another reason
          /\ o.ino # 0
          /\ EnableFail(p, EACCES, <<>>)
       \/ /\ o.ino # 0
          /\ LET fd == LowestFree(fdt[p]) IN
             /\ fdt' = [fdt EXCEPT ![p][fd] = [ino |-> o.ino, off |-> 0]]
             /\ enable' = [enable EXCEPT ![p].in_fd = fd]
          /\ pc' = [pc EXCEPT ![p] = "e_fstat"]
          /\ UNCHANGED errno

\* fstat(in_fd, &st) and the two checks of st
Enable_fstat(p) ==
    /\ pc[p] = "e_fstat"
    /\ UNCHANGED <<inodes, dir, cand, umask, heap_ok, main, exit, obs, adv>>
    /\ \/ \* fstat fails
          EnableFail(p, EIO, <<enable[p].in_fd>>)
       \/ LET f == inodes[StatTarget(p)]
              st == [st_ino |-> StatTarget(p), st_uid |-> f.uid, st_mode |-> f.mode]
          IN IF OwnerOk(st) /\ ModeOk(st)
             THEN /\ enable' = [enable EXCEPT ![p].st = st]
                  /\ pc' = [pc EXCEPT ![p] = "e_unlink"]
                  /\ UNCHANGED <<fdt, errno>>
             ELSE /\ fdt' = [fdt EXCEPT ![p] = CloseAll(@, <<enable[p].in_fd>>)]
                  /\ enable' = [enable EXCEPT ![p].st = st, ![p].ret = FALSE,
                          ![p].ebadf = @ + BadCloses(fdt[p], <<enable[p].in_fd>>)]
                  /\ pc' = [pc EXCEPT ![p] = "e_free"]
                  /\ UNCHANGED errno

\* ret = unlink(tmp_buf)
Enable_unlink(p) ==
    /\ pc[p] = "e_unlink"
    /\ UNCHANGED <<cand, umask, heap_ok, main, exit, obs, adv>>
    /\ \E fault \in BOOLEAN :
          LET u == Unlink(p, enable[p].tmp_buf, fault) IN
          /\ dir' = u.dir
          /\ IF PreUnlinkFatal(u.ret, u.errno)
             THEN EnableFail(p, u.errno, <<enable[p].in_fd>>)
             ELSE /\ errno' = [errno EXCEPT ![p] = u.errno]
                  /\ pc' = [pc EXCEPT ![p] = "e_creat"]
                  /\ UNCHANGED <<fdt, enable>>
          /\ inodes' = Gc(inodes, dir', fdt')

\* out_fd = open(tmp_buf, O_WRONLY|O_CREAT|O_EXCL, 0600)
Enable_creat(p) ==
    /\ pc[p] = "e_creat"
    /\ UNCHANGED <<cand, umask, heap_ok, main, exit, adv>>
    /\ \/ \* the name exists: O_EXCL
          /\ dir[enable[p].tmp_buf] # 0
          /\ EnableFail(p, EEXIST, <<enable[p].in_fd>>)
          /\ UNCHANGED <<inodes, dir, obs>>
       \/ \* the create fails for another reason
          /\ dir[enable[p].tmp_buf] = 0
          /\ EnableFail(p, EACCES, <<enable[p].in_fd>>)
          /\ UNCHANGED <<inodes, dir, obs>>
       \/ /\ dir[enable[p].tmp_buf] = 0
          /\ LET fd == LowestFree(fdt[p])
                 i == Len(inodes) + 1
             IN /\ inodes' = Append(inodes,
                                File(CreatUid, ApplyUmask(CreatMode, umask[p]), <<>>, p))
                /\ dir' = [dir EXCEPT ![enable[p].tmp_buf] = i]
                /\ fdt' = [fdt EXCEPT ![p][fd] = [ino |-> i, off |-> 0]]
                /\ enable' = [enable EXCEPT ![p].out_fd = fd]
                /\ obs' = [obs EXCEPT ![p].staged = i]
          /\ pc' = [pc EXCEPT ![p] = "e_read"]
          /\ UNCHANGED errno

\* rd = read(in_fd, buf, sizeof buf)
Enable_read(p) ==
    /\ pc[p] = "e_read"
    /\ UNCHANGED <<dir, cand, umask, heap_ok, main, exit, adv>>
    /\ obs' = [obs EXCEPT ![p].nread = @ + 1]
    /\ LET in == fdt[p][enable[p].in_fd]
           data == inodes[in.ino].data
           left == Len(data) - in.off
       IN
       \/ \* rd == -1
          /\ EnableFail(p, EIO, <<enable[p].out_fd, enable[p].in_fd>>)
       \/ \* rd == 0: end of file; close(out_fd); close(in_fd)
          /\ left = 0
          /\ fdt' = [fdt EXCEPT ![p] =
                        CloseAll(@, <<enable[p].out_fd, enable[p].in_fd>>)]
          /\ enable' = [enable EXCEPT ![p].rd = 0,
                ![p].ebadf = @ + BadCloses(fdt[p],
                                           <<enable[p].out_fd, enable[p].in_fd>>)]
          /\ pc' = [pc EXCEPT ![p] = "e_rename"]
          /\ UNCHANGED errno
       \/ \E n \in 1..Min(BufSize, left) :
          /\ fdt' = [fdt EXCEPT ![p][enable[p].in_fd].off = @ + n]
          /\ enable' = [enable EXCEPT ![p].rd = n,
                                      ![p].buf = SubSeq(data, in.off + 1, in.off + n)]
          /\ pc' = [pc EXCEPT ![p] = "e_write"]
          /\ UNCHANGED errno
    /\ inodes' = Gc(inodes, dir, fdt')

\* wr = write(out_fd, buf, rd)
Enable_write(p) ==
    /\ pc[p] = "e_write"
    /\ UNCHANGED <<dir, cand, umask, heap_ok, main, exit, obs, adv>>
    /\ LET out == fdt[p][enable[p].out_fd] IN
       \/ \* wr == -1
          /\ EnableFail(p, EIO, <<enable[p].out_fd, enable[p].in_fd>>)
          /\ inodes' = Gc(inodes, dir, fdt')
       \/ \* wr bytes are written, wr <= rd; the loop goes on to the next read
          \E wr \in 1..enable[p].rd :
          /\ inodes' = [inodes EXCEPT ![out.ino].data =
                            WriteAt(@, out.off, SubSeq(enable[p].buf, 1, wr))]
          /\ fdt' = [fdt EXCEPT ![p][enable[p].out_fd].off = @ + wr]
          /\ pc' = [pc EXCEPT ![p] = "e_read"]
          /\ UNCHANGED <<enable, errno>>

\* ret = rename(tmp_buf, state_path)
Enable_rename(p) ==
    /\ pc[p] = "e_rename"
    /\ UNCHANGED <<cand, fdt, umask, heap_ok, main, exit, obs, adv>>
    /\ pc' = [pc EXCEPT ![p] = "e_free"]
    /\ LET from == RenameSource(p) IN
       \/ \* the source is gone
          /\ dir[from] = 0
          /\ errno' = [errno EXCEPT ![p] = ENOENT]
          /\ enable' = [enable EXCEPT ![p].ret = FALSE]
          /\ UNCHANGED dir
       \/ \* the rename fails for another reason
          /\ dir[from] # 0
          /\ errno' = [errno EXCEPT ![p] = EACCES]
          /\ enable' = [enable EXCEPT ![p].ret = FALSE]
          /\ UNCHANGED dir
       \/ /\ dir[from] # 0
          /\ dir' = [d \in DirPaths |->
                        IF d = main[p].state_path THEN dir[from]
                        ELSE IF d = from THEN 0 ELSE dir[d]]
          /\ enable' = [enable EXCEPT ![p].ret = TRUE]
          /\ UNCHANGED errno
    /\ inodes' = Gc(inodes, dir', fdt)

\* free(tmp_buf); return
Enable_free(p) ==
    /\ pc[p] = "e_free"
    /\ UNCHANGED <<dir, cand, umask, obs, adv>>
    /\ \/ /\ main' = [main EXCEPT ![p].ret = enable[p].ret]
          /\ pc' = [pc EXCEPT ![p] = "m_free"]
          /\ Live
       \/ /\ ~heap_ok[p]
          /\ Exit(p, Aborted)
          /\ UNCHANGED main

(* ---------------------- the adversary and a reader --------------------- *)

\* the caller, who owns the directory of the candidates, puts the entry of
\* one name under the name a running invocation was given (rename or link)
Adversary ==
    /\ adv < MaxAdv
    /\ \E from \in CandNames, to \in CandNames :
          /\ \E p \in Procs : pc[p] \notin {"start", "exit"} /\ main[p].path = to
          /\ cand[from] # cand[to]
          /\ cand' = [cand EXCEPT ![to] = cand[from]]
    /\ adv' = adv + 1
    /\ UNCHANGED <<inodes, dir, fdt, umask, errno, heap_ok, pc, main, enable,
                   exit, obs>>

(* --------------------------- specifications ---------------------------- *)

Rest(p) ==
    \/ Main_authenticate(p)
    \/ Main_free(p)
    \/ Disable_unlink(p)
    \/ Enable_malloc(p)
    \/ Enable_open(p)
    \/ Enable_fstat(p)
    \/ Enable_unlink(p)
    \/ Enable_creat(p)
    \/ Enable_read(p)
    \/ Enable_write(p)
    \/ Enable_rename(p)
    \/ Enable_free(p)

Step(p) == Main_start(p) \/ Rest(p)

\* concurrent invocations
Next == \E p \in Procs : Step(p)
Spec == Init /\ [][Next]_vars

\* one invocation after the other: p2 starts when p1 has exited
Solo(p) == \A q \in Procs \ {p} : pc[q] = (IF p = "p1" THEN "start" ELSE "exit")
SoloStart(p) == Solo(p) /\ Main_start(p)
NextSeq == \E p \in Procs : SoloStart(p) \/ Rest(p)
SpecSeq == Init /\ [][NextSeq]_vars

\* a single invocation, and an adversary
NextAdv == Step("p1") \/ Adversary
SpecAdv == Init /\ [][NextAdv]_vars

\* a single invocation in a state directory that holds the neighbours' files
NextIso == Step("p1")
SpecIso == InitIso /\ [][NextIso]_vars

(* ------------------------------- claims -------------------------------- *)

EnablePcs == {"e_malloc", "e_open", "e_fstat", "e_unlink", "e_creat", "e_read",
              "e_write", "e_rename", "e_free"}
WritePcs == EnablePcs \cup {"d_unlink"}

\* C1: gate precedence.  When authenticate() does not return success the
\* invocation ends at once with status 1, the step changes no directory entry
\* and no file, and no invocation is ever inside enable() or disable()
\* without its gate having returned success.
C1_GatePrecedence ==
    [][\A p \in Procs :
         /\ (pc[p] = "auth" /\ pc'[p] # "auth" /\ obs'[p].auth = "fail")
               => (pc'[p] = "exit" /\ exit'[p] = 1 /\ dir' = dir /\ inodes' = inodes)
         /\ (pc'[p] \in WritePcs) => (obs'[p].auth = "ok")]_vars

\* two invocations, one of each command, both rejected by the gate
C1_Witness ==
    \E p \in Procs, q \in Procs :
        /\ pc[p] = "exit" /\ obs[p].auth = "fail" /\ main[p].cmd = CMD_ENABLE
        /\ pc[q] = "exit" /\ obs[q].auth = "fail" /\ main[q].cmd = CMD_DISABLE

\* C2: install changes the live state path only at the final rename.  What a
\* reader finds at the state path changes only in a rename() that succeeds;
\* enable() is about to return true only after such a rename; and whenever
\* enable() is about to return false the state path holds what it held when
\* enable() was called.
C2_InstallOnlyAtRename ==
    [][\A p \in Procs : \A s \in StatePaths :
         /\ (pc[p] \in EnablePcs /\ main[p].state_path = s /\ View(s)' # View(s))
               => (pc[p] = "e_rename" /\ enable'[p].ret)
         /\ (pc[p] \in EnablePcs /\ pc[p] # "e_free" /\ pc'[p] = "e_free"
             /\ enable'[p].ret)
               => (pc[p] = "e_rename" /\ dir[enable[p].tmp_buf] # 0
                   /\ dir'[main[p].state_path] = dir[enable[p].tmp_buf])
         /\ (pc'[p] = "e_free" /\ ~enable'[p].ret)
               => (View(main[p].state_path)' = obs'[p].pre)]_vars

\* an install that failed after it had created and filled its staging file,
\* with a state file in place
C2_Witness ==
    \E p \in Procs :
        /\ pc[p] = "e_free" /\ ~enable[p].ret
        /\ obs[p].staged # 0 /\ obs[p].nread > 1
        /\ obs[p].pre.exists

\* the candidate file of an install that has returned, or is about to
Candidate(p) == inodes[enable[p].st.st_ino]

\* C3: postcondition of a successful install.  Whenever enable() is about to
\* return true, the state path holds exactly the bytes of the candidate that
\* was opened and no file is left at the staging path.
C3_InstallPostcondition ==
    \A p \in Procs :
        (pc[p] = "e_free" /\ enable[p].ret)
           => /\ View(main[p].state_path) =
                    [exists |-> TRUE, data |-> Candidate(p).data]
              /\ dir[enable[p].tmp_buf] = 0

\* C4: symlink rejection.  An open of a candidate path whose last component
\* is a symlink at that moment fails: enable() goes to its error return, no
\* descriptor is opened, no directory entry and no file changes, and the state
\* path holds what it held when enable() was called.
C4_SymlinkRejected ==
    [][\A p \in Procs :
         (pc[p] = "e_open" /\ pc'[p] # "e_open"
          /\ cand[main[p].path].kind = "symlink")
            => /\ pc'[p] = "e_free" /\ ~enable'[p].ret
               /\ fdt' = fdt /\ dir' = dir /\ inodes' = inodes
               /\ View(main[p].state_path)' = obs'[p].pre]_vars

\* the path named a file when the invocation got it; the adversary has since
\* made it a symlink to a file of the caller with mode 0600; the open failed
C4_Witness ==
    \E p \in Procs :
        /\ pc[p] = "e_free" /\ errno[p] = ELOOP /\ ~enable[p].ret
        /\ adv = 1 /\ main[p].path # "link"
        /\ cand[main[p].path].kind = "symlink"
        /\ inodes[cand[main[p].path].ino].uid = CallerUid
        /\ inodes[cand[main[p].path].ino].mode = CreatMode
        /\ obs[p].pre.exists

\* the file behind the descriptor of the candidate
InFile(p) == inodes[fdt[p][enable[p].in_fd].ino]
\* a file of another owner, or with a group or other permission bit
Insecure(f) == f.uid # CallerUid \/ f.mode % 64 # 0

\* C5: ownership and permission rejection.  When the opened candidate is
\* owned by another user or has a group or other bit, the step that inspects
\* it sends enable() to its error return with no read made, no staging file
\* created, and no directory entry or file changed; and enable() is never at
\* or past the pre-unlink with such a candidate open.
C5_RejectBeforeCopy ==
    [][\A p \in Procs :
         /\ (pc[p] = "e_fstat" /\ pc'[p] # "e_fstat" /\ Insecure(InFile(p)))
               => /\ pc'[p] = "e_free" /\ ~enable'[p].ret
                  /\ obs'[p].nread = 0 /\ obs'[p].staged = 0
                  /\ dir' = dir /\ inodes' = inodes
                  /\ View(main[p].state_path)' = obs'[p].pre
         /\ (pc'[p] \in {"e_unlink", "e_creat", "e_read", "e_write"})
               => ~Insecure(InFile(p)')]_vars

\* a candidate of the caller with only a group bit set has been rejected,
\* with a state file in place
C5_Witness ==
    \E p \in Procs :
        /\ pc[p] = "e_free" /\ ~enable[p].ret
        /\ enable[p].st.st_uid = CallerUid
        /\ enable[p].st.st_mode % 64 # 0 /\ enable[p].st.st_mode % 8 = 0
        /\ obs[p].pre.exists

\* the set of bytes of a sequence
Range(seq) == {seq[i] : i \in 1..Len(seq)}

\* the contents a state file is made from: the old state file's and each
\* candidate's
Sources == {OldData} \cup {inodes[i].data : i \in {Ino.a, Ino.b}}

\* C6: atomic visibility.  The file a reader finds at the state path is never
\* a partially written one, that is, one some enable() still has open for
\* writing, and never a mixture: its bytes are bytes of the old content only
\* or of one candidate only.
C6_AtomicVisibility ==
    \A s \in StatePaths :
        dir[s] # 0 =>
           /\ \A p \in Procs, f \in Fds : fdt[p][f].ino # dir[s]
           /\ \E src \in Sources : Range(inodes[dir[s]].data) \subseteq Range(src)

\* C7: exclusive staging.  From the moment an enable() has created its
\* staging file until its rename(), the staging path names that file: no
\* other invocation has removed it, replaced it or renamed it away.
C7_ExclusiveStaging ==
    \A p \in Procs :
        pc[p] \in {"e_read", "e_write", "e_rename"}
           => dir[enable[p].tmp_buf] = obs[p].staged

\* C8: the validated handle is the handle read.  The candidate path is opened
\* at most once; while enable() holds the candidate open past the checks, the
\* file behind the descriptor is the file whose owner and mode were put in st;
\* what a read() puts in buf are the bytes of that file at the descriptor's
\* offset; and when enable() is about to return true every byte at the state
\* path is a byte of that file.
C8_ValidatedHandleIsRead ==
    \A p \in Procs :
        /\ obs[p].nopen <= 1
        /\ pc[p] \in {"e_unlink", "e_creat", "e_read", "e_write"}
              => /\ enable[p].st.st_ino = fdt[p][enable[p].in_fd].ino
                 /\ enable[p].st.st_uid = InFile(p).uid
                 /\ enable[p].st.st_mode = InFile(p).mode
        /\ pc[p] = "e_write"
              => enable[p].buf =
                    SubSeq(Candidate(p).data,
                           fdt[p][enable[p].in_fd].off - enable[p].rd + 1,
                           fdt[p][enable[p].in_fd].off)
        /\ (pc[p] = "e_free" /\ enable[p].ret)
              => Range(View(main[p].state_path).data) \subseteq Range(Candidate(p).data)

\* an install has succeeded with bytes of the file it opened, while the
\* adversary put another file under the candidate path after the open
C8_Witness ==
    \E p \in Procs :
        /\ pc[p] = "e_free" /\ enable[p].ret
        /\ adv >= 1
        /\ cand[main[p].path].ino # enable[p].st.st_ino
        /\ View(main[p].state_path).data = Candidate(p).data
        /\ Len(Candidate(p).data) > 0

\* C9: the state-path invariant.  A file at a state path is owned by the
\* service identity, not by the caller, and has no group or other bit.
C9_StatePathInvariant ==
    \A s \in StatePaths :
        dir[s] # 0 =>
           /\ inodes[dir[s]].uid = ServiceUid
           /\ inodes[dir[s]].uid # CallerUid
           /\ inodes[dir[s]].mode % 64 = 0

\* the state file is one an enable() installed, next to an invocation of
\* disable that has run to its end
C9_Witness ==
    \E s \in StatePaths, p \in Procs, q \in Procs :
        /\ dir[s] # 0 /\ inodes[dir[s]].creator = p
        /\ main[q].cmd = CMD_DISABLE /\ exit[q] = 0

\* C10: idempotence of revoke.  disable() returns true when its unlink has
\* removed the state file and when it has found none (ENOENT), and then no
\* state file is left; it returns false exactly when the unlink failed with
\* another error, and then nothing has changed; and a disable that follows a
\* successful disable, with no other error, returns true and leaves no state
\* file.
C10_DisableIdempotent ==
    [][\A p \in Procs :
         (pc[p] = "d_unlink" /\ pc'[p] # "d_unlink") =>
            LET s == main[p].state_path IN
            /\ main'[p].ret => dir'[s] = 0
            /\ (dir[s] # 0 /\ dir'[s] = 0) => main'[p].ret
            /\ (dir[s] = 0 /\ errno'[p] = ENOENT) => main'[p].ret
            /\ main'[p].ret <=> (errno'[p] # EACCES)
            /\ ~main'[p].ret => dir' = dir
            /\ (\E q \in Procs \ {p} :
                  main[q].cmd = CMD_DISABLE /\ exit[q] = 0 /\ errno'[p] # EACCES)
                  => (main'[p].ret /\ dir'[s] = 0)]_vars

\* two disables in a row: the first removed the state file, the second found
\* none, and both succeeded
C10_Witness ==
    /\ main["p1"].cmd = CMD_DISABLE /\ exit["p1"] = 0 /\ obs["p1"].pre.exists
    /\ main["p2"].cmd = CMD_DISABLE /\ exit["p2"] = 0 /\ ~obs["p2"].pre.exists
    /\ \A s \in StatePaths : dir[s] = 0

\* C11: the gate succeeds if and only if all four steps succeed.  The gate
\* makes its PAM calls in the order open session, verify credential, verify
\* account, close session, and stops at the first that fails; it lets the
\* invocation through exactly when it made all four and each returned
\* PAM_SUCCESS; and when only the close of the session failed the invocation
\* ends with status 1 like any other gate failure.
C11_GateIffAllFour ==
    [][\A p \in Procs :
         (pc[p] = "auth" /\ pc'[p] # "auth") =>
            LET calls == obs'[p].pam IN
            /\ Len(calls) \in 1..4
            /\ \A i \in 1..(Len(calls) - 1) : calls[i] = PAM_SUCCESS
            /\ Len(calls) < 4 => calls[Len(calls)] # PAM_SUCCESS
            /\ (pc'[p] \in WritePcs) <=>
                  (Len(calls) = 4 /\ \A i \in 1..4 : calls[i] = PAM_SUCCESS)
            /\ (pc'[p] \in WritePcs) <=> (obs'[p].auth = "ok")
            /\ (pc'[p] \notin WritePcs) => (pc'[p] = "exit" /\ exit'[p] = 1)]_vars

\* the credential and the account were verified, the close of the session
\* failed, and the invocation has ended without a write operation
C11_Witness ==
    \E p \in Procs :
        /\ pc[p] = "exit" /\ exit[p] = 1 /\ obs[p].auth = "fail"
        /\ Len(obs[p].pam) = 4
        /\ \A i \in 1..3 : obs[p].pam[i] = PAM_SUCCESS
        /\ obs[p].pam[4] # PAM_SUCCESS
        /\ obs[p].nopen = 0 /\ obs[p].staged = 0

\* C12: exit status.  An invocation ends with status 0 or 1 and no other; one
\* that selected enable or disable ends with 0 exactly when its identity was
\* resolved, its gate succeeded and its write operation returned true.
C12_ExitStatus ==
    \A p \in Procs :
        exit[p] # Running =>
           /\ exit[p] \in {0, 1}
           /\ main[p].cmd \in {CMD_ENABLE, CMD_DISABLE} =>
                 (exit[p] = 0 <=> /\ main[p].state_path # "none"
                                  /\ obs[p].auth = "ok"
                                  /\ main[p].ret)

\* C13 as stated: every invocation that has selected enable or disable and
\* has ended has evaluated the gate exactly once.
C13_ExactlyOneGate ==
    \A p \in Procs :
        (exit[p] # Running /\ main[p].cmd \in {CMD_ENABLE, CMD_DISABLE})
           => obs[p].ngate = 1

\* C13 amended: an invocation evaluates the gate at most once, exactly once
\* when its identity and state path were resolved and not at all when they
\* were not; the gate is not entered again after it has been left; a gate
\* that fails ends the invocation with status 1 and no write operation; and
\* an invocation runs only the operation its command selects, once.
C13_OneGateNoRetry ==
    [][\A p \in Procs :
         /\ obs'[p].ngate <= 1
         /\ (exit'[p] # Running /\ main'[p].cmd \in {CMD_ENABLE, CMD_DISABLE})
               => (obs'[p].ngate = 1 <=> main'[p].state_path # "none")
         /\ (pc[p] # "auth") => (obs'[p].ngate = obs[p].ngate)
         /\ (pc[p] \notin {"start", "auth"}) => (pc'[p] # "auth")
         /\ (pc[p] = "auth" /\ obs'[p].auth = "fail")
               => (pc'[p] = "exit" /\ exit'[p] = 1)
         /\ (exit'[p] # Running /\ obs'[p].auth = "fail")
               => (obs'[p].nopen = 0 /\ obs'[p].staged = 0)
         /\ (pc'[p] \in EnablePcs) => (main'[p].cmd = CMD_ENABLE)
         /\ (pc'[p] = "d_unlink") => (main'[p].cmd = CMD_DISABLE)
         /\ (pc'[p] \in WritePcs /\ pc[p] \notin WritePcs) => (pc[p] = "auth")
         /\ (pc'[p] = "d_unlink") => (pc[p] \in {"auth", "d_unlink"})
         /\ (pc'[p] = "e_malloc") => (pc[p] \in {"auth", "e_malloc"})]_vars

\* one invocation was rejected by its only gate evaluation and has ended
\* with status 1, another has ended before the gate because its identity
\* could not be resolved
C13_Witness ==
    \E p \in Procs, q \in Procs :
        /\ exit[p] = 1 /\ obs[p].auth = "fail" /\ obs[p].ngate = 1
        /\ main[p].state_path # "none"
        /\ exit[q] = 1 /\ main[q].cmd \in {CMD_ENABLE, CMD_DISABLE}
        /\ main[q].state_path = "none" /\ obs[q].ngate = 0

\* C14: racing disables.  With two invocations of disable for one identity
\* running at once, in whatever order their steps are taken: an unlink that
\* meets no error other than ENOENT makes disable() return true and leaves
\* no state file; an invocation whose disable() returned true ends with
\* status 0; and once both have run their unlink with no such error, and
\* when both have ended with status 0, the state file is absent.
C14_RacingDisables ==
    [][\A p \in Procs : \A q \in Procs \ {p} :
         (/\ main'[p].cmd = CMD_DISABLE /\ main'[q].cmd = CMD_DISABLE
          /\ main'[p].state_path = main'[q].state_path
          /\ main'[p].state_path # "none")
         => LET s == main'[p].state_path IN
            /\ (pc[p] = "d_unlink" /\ pc'[p] # "d_unlink" /\ errno'[p] # EACCES)
                  => (main'[p].ret /\ dir'[s] = 0)
            /\ (pc[p] = "m_free" /\ pc'[p] # "m_free")
                  => (exit'[p] = (IF main[p].ret THEN 0 ELSE 1))
            /\ (pc'[p] \in {"m_free", "exit"} /\ main'[p].ret
                /\ pc'[q] \in {"m_free", "exit"} /\ main'[q].ret)
                  => dir'[s] = 0
            /\ (exit'[p] = 0 /\ exit'[q] = 0) => dir'[s] = 0]_vars

\* both invocations passed the gate while the state file was there, one
\* unlink removed it and the other found it gone, and both have ended
\* with status 0
C14_Witness ==
    /\ \A p \in Procs :
          /\ main[p].cmd = CMD_DISABLE /\ exit[p] = 0
          /\ obs[p].auth = "ok" /\ obs[p].pre.exists
    /\ \A s \in StatePaths : dir[s] = 0

\* C15: the staging file is never persisted.  In every state where no
\* invocation is inside enable(), no file exists at the staging path of
\* any state path.
C15_StagingNeverPersisted ==
    (\A p \in Procs : pc[p] \notin EnablePcs)
       => \A s \in StatePaths : dir[TmpPath(s)] = 0

\* C16: stale staging is discarded.  With one invocation at a time: the
\* pre-unlink of enable() removes a file it finds at the staging path and goes
\* on to the create; finding none (ENOENT) it goes on as well; on any other
\* error enable() goes to its error return with nothing changed and no
\* staging file created.  The exclusive create therefore never finds the name
\* taken, the file a successful rename installs is the one this enable()
\* created, and its bytes are bytes of this enable()'s candidate.
C16_StaleStagingDiscarded ==
    [][\A p \in Procs :
         LET t == enable[p].tmp_buf IN
         /\ (pc[p] = "e_unlink" /\ pc'[p] # "e_unlink") =>
               /\ (dir[t] # 0 /\ errno'[p] # EACCES)
                     => (pc'[p] = "e_creat" /\ dir'[t] = 0
                         /\ inodes'[dir[t]] = Freed)
               /\ (dir[t] = 0 /\ errno'[p] = ENOENT) => (pc'[p] = "e_creat")
               /\ (errno'[p] = EACCES)
                     => (pc'[p] = "e_free" /\ ~enable'[p].ret
                         /\ obs'[p].staged = 0 /\ dir' = dir /\ inodes' = inodes)
               /\ (pc'[p] = "e_creat") => (dir'[t] = 0)
         /\ (pc[p] = "e_creat") => (dir[t] = 0)
         /\ (pc[p] = "e_creat" /\ pc'[p] = "e_free") => (errno'[p] # EEXIST)
         /\ (pc[p] = "e_rename" /\ enable'[p].ret)
               => /\ dir'[main[p].state_path] = obs[p].staged
                  /\ inodes'[obs[p].staged].creator = p
         /\ (pc'[p] = "e_free" /\ enable'[p].ret)
               => Range(View(main[p].state_path).data)'
                     \subseteq Range(Candidate(p).data)']_vars

\* an enable failed after it had created its staging file and ended with
\* status 1; the next enable, of another candidate, has removed that file
\* and installed its own candidate's bytes
C16_Witness ==
    /\ exit["p1"] = 1 /\ obs["p1"].staged # 0 /\ obs["p1"].nread > 1
    /\ inodes[obs["p1"].staged] = Freed
    /\ pc["p2"] = "e_free" /\ enable["p2"].ret
    /\ main["p2"].path # main["p1"].path
    /\ obs["p2"].staged # obs["p1"].staged
    /\ View(main["p2"].state_path) =
          [exists |-> TRUE, data |-> Candidate("p2").data]
    /\ Len(Candidate("p2").data) > 0

\* C17: cross-identity isolation.  The staging path of an invocation is not
\* the state path of another identity, and no step of an invocation run for
\* one identity changes what is found at the state path of another: it
\* neither creates, nor replaces, nor removes a file there.
C17_CrossIdentityIsolation ==
    [][\A p \in Procs :
         pc'[p] # pc[p] =>
            \A B \in Identities \ {main'[p].username} :
               LET b == get_state_path(B) IN
               /\ enable'[p].tmp_buf # b
               /\ dir'[b] = dir[b]
               /\ View(b)' = View(b)]_vars

\* the descriptors an invocation has open
OpenFds(p) == {f \in Fds : fdt[p][f] # NoFile}

\* C18: file-handle release.  Whenever enable() is about to return, by its
\* success path or by any of its error paths, and from then on, the invocation
\* has no descriptor open; and no close() of enable() is ever given a
\* descriptor that is already closed.  While enable() copies, the candidate
\* and the staging file are on two different open descriptors.
C18_HandlesReleased ==
    \A p \in Procs :
        /\ enable[p].ebadf = 0
        /\ pc[p] \in {"e_free", "m_free", "exit"} => OpenFds(p) = {}
        /\ pc[p] \in {"e_read", "e_write"}
              => /\ OpenFds(p) = {enable[p].in_fd, enable[p].out_fd}
                 /\ enable[p].in_fd # enable[p].out_fd
        /\ pc[p] \in {"e_fstat", "e_unlink", "e_creat"}
              => OpenFds(p) = {enable[p].in_fd}

\* an enable() is about to return false after a write error in the copy,
\* with both of the descriptors it had opened closed
C18_Witness ==
    \E p \in Procs :
        /\ pc[p] = "e_free" /\ ~enable[p].ret /\ errno[p] = EIO
        /\ obs[p].nopen = 1 /\ obs[p].staged # 0 /\ obs[p].nread > 0
        /\ enable[p].in_fd \in Fds /\ enable[p].out_fd \in Fds
        /\ OpenFds(p) = {}

\* C19: path buffers never under-allocate.  For every identity, and for the
\* paths of every invocation, the buffer get_state_path() allocates holds the
\* state path with its separator and NUL, and the buffer enable() allocates
\* holds the staging path with its suffix and NUL; no invocation writes past
\* the end of a buffer it allocated.
C19_PathBuffersLargeEnough ==
    /\ \A u \in Identities : StatePathBufNeeded(u) <= StatePathBufSize(u)
    /\ \A p \in Procs :
          /\ main[p].state_path # "none"
                => StatePathBufNeeded(main[p].username)
                      <= StatePathBufSize(main[p].username)
          /\ enable[p].tmp_buf # "none"
                => Len(enable[p].tmp_buf) + 1 <= TmpBufSize(main[p].state_path)
          /\ heap_ok[p]

====
